---- MODULE Spec2Model ----
(***************************************************************************)
(* Model of the iterative question/answer form of pres                     *)
(* (pkg/tui IterativeFormModel) and of the gathering loop of the create    *)
(* and update commands that drives it, and of the presentation store      *)
(* (internal/presentation Writer).                                         *)
(*                                                                         *)
(* Text is a sequence of one-character strings, so that TrimSpace,         *)
(* ToLower and the comparison with the yes/no tokens are computed.         *)
(***************************************************************************)
EXTENDS Integers, Sequences, FiniteSets, TLC

VARIABLES
    form,            \* the IterativeFormModel
    last,            \* history: the operation just applied and the state it was applied in
    submitted,       \* history: per logged response, the round current when it was submitted
    shown,           \* history: per logged response, the question displayed when it was submitted
    scn,             \* history: how far the run follows Script (-1: it left the script)
    pc,              \* runCreate/runUpdate: position in the command
    command,         \* runCreate/runUpdate: which command runs
    iteration,       \* runCreate/runUpdate: the loop variable
    preparation,     \* runCreate/runUpdate: the question service's last reply
    allQAResponses,  \* runCreate/runUpdate: the collected "Q: .. A: .." entries
    retErr,          \* runCreate/runUpdate: the error returned ("nil" for none)
    effects,         \* history: the external calls made after the gathering loop
    userCancel,      \* history: a cancel key was pressed in some run of the form
    store            \* the presentation file, the clock, and the last save and load

formVars == <<form, last, submitted, shown, scn>>

callerVars == <<pc, command, iteration, preparation, allQAResponses, retErr, effects, userCancel>>

vars == <<form, last, submitted, shown, scn, pc, command, iteration, preparation,
          allQAResponses, retErr, effects, userCancel, store>>

(***************************************************************************)
(* Bounds of the model.                                                    *)
(***************************************************************************)
\* largest round budget (IterationConfig.MaxIterations) a form is built with
MaxRounds == 2

\* largest number of questions appended to one form, and of responses logged
MaxQuestions == 2

\* the same, in the runs of the two-round scenario
ScnQuestions == 3

\* largest number of questions the question service returns for one round
MaxBatch == 1

(***************************************************************************)
(* Text helpers (Go strings package).                                      *)
(***************************************************************************)
Str1(a) == <<a>>

Str2(a, b) == <<a, b>>

Str3(a, b, c) == <<a, b, c>>

IsSpace(c) == c \in {" ", "\t", "\n", "\r"}

RECURSIVE TrimLeft(_)
TrimLeft(s) ==
    IF s # <<>> /\ IsSpace(Head(s)) THEN TrimLeft(Tail(s)) ELSE s

RECURSIVE TrimRight(_)
TrimRight(s) ==
    IF s # <<>> /\ IsSpace(s[Len(s)])
    THEN TrimRight(SubSeq(s, 1, Len(s) - 1))
    ELSE s

TrimSpace(s) == TrimRight(TrimLeft(s))

LowerRune(c) ==
    CASE c = "Y" -> "y"
      [] c = "E" -> "e"
      [] c = "S" -> "s"
      [] c = "N" -> "n"
      [] c = "O" -> "o"
      [] c = "X" -> "x"
      [] OTHER -> c

ToLower(s) == [i \in DOMAIN s |-> LowerRune(s[i])]

(***************************************************************************)
(* The form: IterativeQuestion, IterativeFormModel and its methods.        *)
(***************************************************************************)
IterativeQuestion(q, h, i) == [Question |-> q, HelpText |-> h, Iteration |-> i]

NoError == "nil"

ErrAnswerRequired == "please provide an answer"

ErrYesOrNo == "please answer 'yes' or 'no'"

NewIterativeForm(maxIterations) ==
    [ config     |-> [MaxIterations |-> maxIterations],
      questions  |-> <<>>,
      responses  |-> <<>>,
      currentIdx |-> 0,
      iteration  |-> 0,
      input      |-> <<>>,
      err        |-> NoError,
      done       |-> FALSE,
      needsMore  |-> FALSE,
      askingMore |-> FALSE ]

\* variant: the new questions are put in front of the list
AddQuestions_Prepend(m, questions) == [m EXCEPT !.questions = questions \o m.questions]

AddQuestions(m, questions) == [m EXCEPT !.questions = m.questions \o questions]

KeyMsg(k) == [kind |-> "KeyMsg", str |-> k]

\* the bytes of a key's string: Go strings are byte sequences, and a character
\* outside ASCII takes more than one byte in UTF-8
Bytes(k) == IF k = "é" THEN <<"0xC3", "0xA9">> ELSE <<k>>

\* the terminal's resize notification
WindowSizeMsg(w) == [kind |-> "WindowSizeMsg", Width |-> w]

Quit == "tea.Quit"

NoCmd == "nil"

Ret(m, c) == [model |-> m, cmd |-> c]

\* the two tokens of the `lower == "yes" || lower == "y"` test
IsYes(lower) == lower = Str3("y", "e", "s") \/ lower = Str1("y")

\* variant: only the short token declines
IsNo_OnlyN(lower) == lower = Str1("n")

\* the two tokens of the `lower == "no" || lower == "n"` test
IsNo(lower) == lower = Str2("n", "o") \/ lower = Str1("n")

\* variant: the raw buffer is validated and stored
EnterInput_NoTrim(m) == m.input

\* input := strings.TrimSpace(m.input)
EnterInput(m) == TrimSpace(m.input)

\* variant: the end of the round is tested with > instead of >=
IterationAnswered_OffByOne(m) == m.currentIdx > Len(m.questions)

\* if m.currentIdx >= len(m.questions)
IterationAnswered(m) == m.currentIdx >= Len(m.questions)

\* variant: the last round is taken to have a successor
CanIterate_OffByOne(m) == m.iteration < m.config.MaxIterations

\* if m.iteration < m.config.MaxIterations-1
CanIterate(m) == m.iteration < m.config.MaxIterations - 1

\* variant: a rejected continuation answer stays in the buffer
handleContinuation_KeepInput(m) ==
    LET lower == ToLower(EnterInput(m)) IN
    IF IsYes(lower)
    THEN Ret([m EXCEPT !.needsMore = TRUE, !.askingMore = FALSE, !.done = TRUE], Quit)
    ELSE IF IsNo(lower)
    THEN Ret([m EXCEPT !.needsMore = FALSE, !.askingMore = FALSE, !.done = TRUE], Quit)
    ELSE Ret([m EXCEPT !.err = ErrYesOrNo], NoCmd)

\* the continuation branch of handleEnter (m.askingMore)
handleContinuation(m) ==
    LET lower == ToLower(EnterInput(m)) IN
    IF IsYes(lower)
    THEN Ret([m EXCEPT !.needsMore = TRUE, !.askingMore = FALSE, !.done = TRUE], Quit)
    ELSE IF IsNo(lower)
    THEN Ret([m EXCEPT !.needsMore = FALSE, !.askingMore = FALSE, !.done = TRUE], Quit)
    ELSE Ret([m EXCEPT !.err = ErrYesOrNo, !.input = <<>>], NoCmd)

\* variant: a pending validation error survives a valid answer
storeResponse_KeepErr(m) ==
    [m EXCEPT !.responses = Append(m.responses, EnterInput(m)),
              !.input = <<>>,
              !.currentIdx = m.currentIdx + 1]

\* variant: the cursor is not moved past the answered question
storeResponse_NoAdvance(m) ==
    [m EXCEPT !.responses = Append(m.responses, EnterInput(m)),
              !.err = NoError,
              !.input = <<>>]

\* variant: the input is stored as typed
storeResponse_Raw(m) ==
    [m EXCEPT !.responses = Append(m.responses, m.input),
              !.err = NoError,
              !.input = <<>>,
              !.currentIdx = m.currentIdx + 1]

\* the "Store response" part of handleEnter
storeResponse(m) ==
    [m EXCEPT !.responses = Append(m.responses, EnterInput(m)),
              !.err = NoError,
              !.input = <<>>,
              !.currentIdx = m.currentIdx + 1]

\* the end-of-iteration check of handleEnter
\* variant: the last round ends without tea.Quit
checkIteration_NoQuit(m) ==
    IF IterationAnswered(m)
    THEN IF CanIterate(m)
         THEN Ret([m EXCEPT !.askingMore = TRUE], NoCmd)
         ELSE Ret([m EXCEPT !.done = TRUE], NoCmd)
    ELSE Ret(m, NoCmd)

checkIteration(m) ==
    IF IterationAnswered(m)
    THEN IF CanIterate(m)
         THEN Ret([m EXCEPT !.askingMore = TRUE], NoCmd)
         ELSE Ret([m EXCEPT !.done = TRUE], Quit)
    ELSE Ret(m, NoCmd)

handleEnter(m) ==
    IF m.askingMore
    THEN handleContinuation(m)
    ELSE IF EnterInput(m) = <<>>
    THEN Ret([m EXCEPT !.err = ErrAnswerRequired], NoCmd)
    ELSE checkIteration(storeResponse(m))

\* case "ctrl+c", "esc"
IsCancelKey(k) == k \in {"ctrl+c", "esc"}

\* variant: the cancel key quits the program without completing the form
cancel_NoDone(m) == Ret(m, Quit)

cancel(m) == Ret([m EXCEPT !.done = TRUE], Quit)

backspace(m) ==
    IF Len(m.input) > 0
    THEN [m EXCEPT !.input = SubSeq(m.input, 1, Len(m.input) - 1)]
    ELSE m

Update(m, msg) ==
    IF msg.kind = "KeyMsg"
    THEN CASE IsCancelKey(msg.str)   -> cancel(m)
           [] msg.str = "enter"      -> handleEnter(m)
           [] msg.str = "backspace"  -> Ret(backspace(m), NoCmd)
           [] OTHER                  -> Ret([m EXCEPT !.input = m.input \o Bytes(msg.str)], NoCmd)
    ELSE Ret(m, NoCmd)

GetResponses(m) == m.responses

RECURSIVE ResponsesFrom(_, _, _)
ResponsesFrom(m, iter, i) ==
    IF i > Len(m.questions) THEN <<>>
    ELSE (IF m.questions[i].Iteration = iter /\ i - 1 < Len(m.responses)
          THEN <<m.responses[i]>> ELSE <<>>)
         \o ResponsesFrom(m, iter, i + 1)

GetResponsesForIteration(m, iter) == ResponsesFrom(m, iter, 1)

IsDone(m) == m.done /\ ~m.needsMore

NeedsMoreInfo(m) == m.needsMore

\* variant: the new round restarts the cursor
NextIteration_ResetIdx(m) ==
    [m EXCEPT !.iteration = m.iteration + 1,
              !.askingMore = FALSE,
              !.needsMore = FALSE,
              !.done = FALSE,
              !.currentIdx = 0]

\* variant: the log is emptied for the new round
NextIteration_ClearLog(m) ==
    [m EXCEPT !.iteration = m.iteration + 1,
              !.askingMore = FALSE,
              !.needsMore = FALSE,
              !.done = FALSE,
              !.responses = <<>>]

\* variant: the round number is not advanced
NextIteration_KeepRound(m) ==
    [m EXCEPT !.askingMore = FALSE,
              !.needsMore = FALSE,
              !.done = FALSE]

NextIteration(m) ==
    [m EXCEPT !.iteration = m.iteration + 1,
              !.askingMore = FALSE,
              !.needsMore = FALSE,
              !.done = FALSE]

GetCurrentIteration(m) == m.iteration

countQuestionsBeforeIteration(questions, iter) ==
    Cardinality({i \in DOMAIN questions : questions[i].Iteration < iter})

countQuestionsInIteration(questions, iter) ==
    Cardinality({i \in DOMAIN questions : questions[i].Iteration = iter})

(***************************************************************************)
(* View.  The rendered text is a sequence of lines; a line keeps its kind, *)
(* its fixed text, the buffer or response it shows and its numbers.  The   *)
(* title and the two prompts are fixed at construction and are rendered by *)
(* their kind alone.                                                       *)
(***************************************************************************)
Line(kind, str, buf, a, b) == [kind |-> kind, str |-> str, buf |-> buf, a |-> a, b |-> b]

SummaryMore == "Gathering more information..."

SummaryComplete == "Information gathering complete!"

\* the widths at which View cuts a shown response
GatheredWidth == 60

PreviousWidth == 50

Truncate(resp, n) ==
    IF Len(resp) > n THEN SubSeq(resp, 1, n) \o <<".", ".", ".">> ELSE resp

ViewHeader(m) ==
    <<Line("title", "", <<>>, 0, 0)>>
    \o (IF m.config.MaxIterations > 1
        THEN <<Line("iteration", "Iteration %d of %d", <<>>, m.iteration + 1, m.config.MaxIterations)>>
        ELSE <<>>)

ViewError(m) ==
    IF m.err # NoError THEN <<Line("error", m.err, <<>>, 0, 0)>> ELSE <<>>

ViewInput(m) == <<Line("input", "> ", m.input, 0, 0)>>

\* the continuation screen
ViewContinuation(m) ==
    <<Line("prompt", "", <<>>, 0, 0), Line("hint", "(yes/no)", <<>>, 0, 0)>>
    \o ViewInput(m)
    \o ViewError(m)
    \o (IF Len(m.responses) > 0
        THEN <<Line("gathered", "Information gathered:", <<>>, 0, 0)>>
             \o [i \in 1..Len(m.responses) |->
                    Line("response", "", Truncate(m.responses[i], GatheredWidth), i, 0)]
        ELSE <<>>)

\* the question screen
ViewQuestion(m) ==
    LET question == m.questions[m.currentIdx + 1]
        startIdx == countQuestionsBeforeIteration(m.questions, m.iteration)
    IN  <<Line("progress", "Question %d of %d (this iteration)", <<>>,
               m.currentIdx + 1 - startIdx,
               countQuestionsInIteration(m.questions, m.iteration)),
          Line("question", question.Question, <<>>, 0, 0)>>
        \o (IF question.HelpText # ""
            THEN <<Line("help", question.HelpText, <<>>, 0, 0)>>
            ELSE <<>>)
        \o ViewInput(m)
        \o ViewError(m)
        \o (IF m.currentIdx > startIdx
            THEN <<Line("previous", "Previous answers (this iteration):", <<>>, 0, 0)>>
                 \o [i \in 1..(m.currentIdx - startIdx) |->
                        Line("response", "", Truncate(m.responses[startIdx + i], PreviousWidth), i, 0)]
            ELSE <<>>)

View(m) ==
    IF m.done /\ ~m.askingMore
    THEN <<Line("summary", IF m.needsMore THEN SummaryMore ELSE SummaryComplete, <<>>, 0, 0)>>
    ELSE ViewHeader(m)
         \o (IF m.askingMore THEN ViewContinuation(m)
             ELSE IF m.currentIdx < Len(m.questions) THEN ViewQuestion(m)
             ELSE <<>>)
         \o <<Line("footer", "Press Esc to cancel", <<>>, 0, 0)>>

(***************************************************************************)
(* The three states of the form, read off its flags.                       *)
(***************************************************************************)
AnsweringQuestion(m) ==
    ~m.done /\ ~m.askingMore /\ m.currentIdx < Len(m.questions)

AskingContinuation(m) == m.askingMore /\ ~m.done

Complete(m) == m.done

StateOf(m) ==
    IF Complete(m) THEN "Complete"
    ELSE IF AskingContinuation(m) THEN "AskingContinuation"
    ELSE IF AnsweringQuestion(m) THEN "AnsweringQuestion"
    ELSE "None"

(***************************************************************************)
(* Inputs of the free environment: any caller, any user.                   *)
(***************************************************************************)
RECURSIVE Prefixes(_)
Prefixes(s) ==
    IF s = <<>> THEN {<<>>} ELSE {s} \cup Prefixes(SubSeq(s, 1, Len(s) - 1))

PrefixClosure(T) == UNION {Prefixes(t) : t \in T}

\* the texts the modelled user types, key by key
Texts == {Str2(" ", "y"), Str2("N", "O"), Str1("x")}

Buffers == PrefixClosure(Texts)

Runes(B) == UNION {{b[i] : i \in DOMAIN b} : b \in B}

Q(text, i) == IterativeQuestion(text, "", i)

\* the question batches a caller appends
Batches ==
    { <<>>,
      <<Q("A?", 0)>>,
      <<Q("A?", 0), Q("B?", 0)>>,
      <<Q("C?", 1)>> }

(***************************************************************************)
(* Steps of the form.  last records the operation just applied and the     *)
(* state of the form it was applied in; submitted records, per logged      *)
(* response, the round that was current when it was submitted.             *)
(***************************************************************************)
Event(op, key, batch) ==
    [op |-> op, key |-> key, batch |-> batch,
     from |-> StateOf(form), soft |-> form.needsMore, width |-> 0]

NoEvent ==
    [op |-> "NewIterativeForm", key |-> "", batch |-> <<>>,
     from |-> "None", soft |-> FALSE, width |-> 0]

\* -1 stands for a response logged while no question was displayed
Logged(m) ==
    IF Len(m.responses) > Len(form.responses)
    THEN Append(submitted, IF AnsweringQuestion(form) THEN form.iteration ELSE -1)
    ELSE submitted

\* stands for no question: the response was logged while none was displayed
NoQuestion == IterativeQuestion("", "", -1)

Displayed(m) ==
    IF Len(m.responses) > Len(form.responses)
    THEN Append(shown, IF AnsweringQuestion(form)
                       THEN form.questions[form.currentIdx + 1]
                       ELSE NoQuestion)
    ELSE shown

\* The scenario: round budget 2, round 0 asks A? and B?, the user answers x
\* and y, then y to the continuation prompt; the caller appends C? for round
\* 1 and advances the round; the user answers z.
ScnAB == <<Q("A?", 0), Q("B?", 0)>>

ScnC == <<Q("C?", 1)>>

Script ==
    << [op |-> "AddQuestions",  key |-> "",      batch |-> ScnAB],
       [op |-> "Update",        key |-> "x",     batch |-> <<>>],
       [op |-> "Update",        key |-> "enter", batch |-> <<>>],
       [op |-> "Update",        key |-> "y",     batch |-> <<>>],
       [op |-> "Update",        key |-> "enter", batch |-> <<>>],
       [op |-> "Update",        key |-> "y",     batch |-> <<>>],
       [op |-> "Update",        key |-> "enter", batch |-> <<>>],
       [op |-> "AddQuestions",  key |-> "",      batch |-> ScnC],
       [op |-> "NextIteration", key |-> "",      batch |-> <<>>],
       [op |-> "Update",        key |-> "z",     batch |-> <<>>],
       [op |-> "Update",        key |-> "enter", batch |-> <<>>] >>

Follow(op, key, batch) ==
    IF /\ scn >= 0
       /\ scn < Len(Script)
       /\ Script[scn + 1] = [op |-> op, key |-> key, batch |-> batch]
    THEN scn + 1
    ELSE -1

\* one key event handled by Update; bound caps the response log
Apply(k, bound) ==
    LET r == Update(form, KeyMsg(k)) IN
    /\ Len(r.model.responses) <= bound
    /\ form' = r.model
    /\ last' = Event("Update", k, <<>>)
    /\ submitted' = Logged(r.model)
    /\ shown' = Displayed(r.model)
    /\ scn' = Follow("Update", k, <<>>)

TypeKey(B, k, bound) ==
    /\ form.input \o Bytes(k) \in B
    /\ Apply(k, bound)

\* the character keys that build the buffers of B
Keys(B) ==
    {k \in (Runes(B) \ Runes({Bytes("é")})) \cup {"é"} :
        \E b \in B : \E i \in 1..(Len(b) - Len(Bytes(k)) + 1) :
            SubSeq(b, i, i + Len(Bytes(k)) - 1) = Bytes(k)}

Type(B, bound) ==
    /\ \E k \in Keys(B) : TypeKey(B, k, bound)
    /\ UNCHANGED <<callerVars, store>>

Backspace(bound) == Apply("backspace", bound) /\ UNCHANGED <<callerVars, store>>

Enter(bound) == Apply("enter", bound) /\ UNCHANGED <<callerVars, store>>

Cancel(bound) ==
    /\ \E k \in {"ctrl+c", "esc"} : Apply(k, bound)
    /\ UNCHANGED <<callerVars, store>>

\* the widths a terminal reports
Widths == {40, 80}

\* one resize notification handled by Update
Resize ==
    /\ \E w \in Widths :
        LET r == Update(form, WindowSizeMsg(w)) IN
        /\ form' = r.model
        /\ last' = [Event("Update", "resize", <<>>) EXCEPT !.width = w]
        /\ submitted' = Logged(r.model)
        /\ shown' = Displayed(r.model)
        /\ scn' = Follow("Update", "resize", <<>>)
    /\ UNCHANGED <<callerVars, store>>

CallAddQuestions(Bs, bound) ==
    /\ \E b \in Bs :
        /\ Len(form.questions) + Len(b) <= bound
        /\ form' = AddQuestions(form, b)
        /\ last' = Event("AddQuestions", "", b)
        /\ scn' = Follow("AddQuestions", "", b)
    /\ UNCHANGED <<submitted, shown>>
    /\ UNCHANGED <<callerVars, store>>

CallNextIteration ==
    /\ form.iteration < form.config.MaxIterations
    /\ form' = NextIteration(form)
    /\ last' = Event("NextIteration", "", <<>>)
    /\ scn' = Follow("NextIteration", "", <<>>)
    /\ UNCHANGED <<submitted, shown>>
    /\ UNCHANGED <<callerVars, store>>

(***************************************************************************)
(* The presentation store (internal/presentation Writer).  A JSON document *)
(* is a function from its keys to its values; a key that is absent is      *)
(* absent from the function's domain.                                      *)
(***************************************************************************)
\* largest number of slides of a presentation
MaxSlides == 2

\* largest reading of the clock
MaxClock == 3

\* a time.Time: the wall clock reading, and whether a monotonic reading is attached
Time(wall, mono) == [wall |-> wall, mono |-> mono]

\* the zero time.Time
ZeroTime == Time(0, FALSE)

\* time.Now()
Now(clock) == Time(clock, TRUE)

\* Time.MarshalJSON writes the wall clock reading only
MarshalTime(t) == t.wall

\* Time.UnmarshalJSON
UnmarshalTime(w) == Time(w, FALSE)

\* types.Slide
Slide(title) == [Title |-> title]

\* types.Presentation
Presentation(title, subtitle, author, date, theme, tags, slides) ==
    [Title |-> title, Subtitle |-> subtitle, Author |-> author, Date |-> date,
     Theme |-> theme, Tags |-> tags, Slides |-> slides]

\* the conversion of a Presentation to the PresentationData format
Wrap(pres, created, modified) ==
    [Metadata |-> [Title |-> pres.Title, Subtitle |-> pres.Subtitle,
                   Author |-> pres.Author, Date |-> pres.Date,
                   Theme |-> pres.Theme, Tags |-> pres.Tags,
                   Created |-> created, Modified |-> modified],
     Slides |-> pres.Slides]

\* the nil *PresentationData returned with an error
NilData == [nil |-> TRUE]

MarshalSlides(slides) == [i \in DOMAIN slides |-> [title |-> slides[i].Title]]

\* json.MarshalIndent(data, "", "  ")
MarshalData(data) ==
    [metadata |-> [title |-> data.Metadata.Title,
                   subtitle |-> data.Metadata.Subtitle,
                   author |-> data.Metadata.Author,
                   date |-> data.Metadata.Date,
                   theme |-> data.Metadata.Theme,
                   tags |-> data.Metadata.Tags,
                   created |-> MarshalTime(data.Metadata.Created),
                   modified |-> MarshalTime(data.Metadata.Modified)],
     slides |-> MarshalSlides(data.Slides)]

\* the raw format: the JSON of a types.Presentation, as the generator writes it
MarshalPresentation(pres) ==
    [title |-> pres.Title, subtitle |-> pres.Subtitle, author |-> pres.Author,
     date |-> pres.Date, theme |-> pres.Theme, tags |-> pres.Tags,
     slides |-> MarshalSlides(pres.Slides)]

\* a file that is not JSON
Malformed == [garbage |-> TRUE]

\* no file at the path
NoFile == [missing |-> TRUE]

IsJSON(doc) == "garbage" \notin DOMAIN doc

\* a field of a JSON object, or the zero value when the key is absent
Get(obj, key, zero) == IF key \in DOMAIN obj THEN obj[key] ELSE zero

UnmarshalSlides(js) == [i \in DOMAIN js |-> Slide(Get(js[i], "title", ""))]

\* json.Unmarshal(jsonData, &data) with data a PresentationData: keys the
\* struct does not name are ignored, keys the document lacks leave zero values
UnmarshalData(doc) ==
    LET meta == Get(doc, "metadata", <<>>) IN
    [Metadata |-> [Title |-> Get(meta, "title", ""),
                   Subtitle |-> Get(meta, "subtitle", ""),
                   Author |-> Get(meta, "author", ""),
                   Date |-> Get(meta, "date", ""),
                   Theme |-> Get(meta, "theme", ""),
                   Tags |-> Get(meta, "tags", <<>>),
                   Created |-> IF "created" \in DOMAIN meta
                               THEN UnmarshalTime(meta["created"]) ELSE ZeroTime,
                   Modified |-> IF "modified" \in DOMAIN meta
                                THEN UnmarshalTime(meta["modified"]) ELSE ZeroTime],
     Slides |-> UnmarshalSlides(Get(doc, "slides", <<>>))]

\* json.Unmarshal(jsonData, &pres) with pres a types.Presentation
UnmarshalPresentation(doc) ==
    Presentation(Get(doc, "title", ""), Get(doc, "subtitle", ""),
                 Get(doc, "author", ""), Get(doc, "date", ""),
                 Get(doc, "theme", ""), Get(doc, "tags", <<>>),
                 UnmarshalSlides(Get(doc, "slides", <<>>)))

ErrReadFile == "failed to read file"

ErrUnmarshal == "failed to unmarshal JSON (tried both formats)"

ErrWriteFile == "failed to write file"

\* SavePresentation: the document written for pres, t1 and t2 being the two
\* readings of time.Now()
SavePresentation(pres, t1, t2) == MarshalData(Wrap(pres, t1, t2))

\* LoadPresentation of the document at the path, t1 and t2 being the two
\* readings of time.Now() of the raw branch
LoadPresentation(file, t1, t2) ==
    IF file = NoFile
    THEN [data |-> NilData, err |-> ErrReadFile]
    ELSE IF IsJSON(file) /\ UnmarshalData(file).Metadata.Title # ""
    THEN [data |-> UnmarshalData(file), err |-> NoError]
    ELSE IF ~IsJSON(file)
    THEN [data |-> NilData, err |-> ErrUnmarshal]
    ELSE [data |-> Wrap(UnmarshalPresentation(file), t1, t2), err |-> NoError]

\* largest number of updates applied by one UpdatePresentation call
MaxUpdates == 2

\* largest number of UpdatePresentation calls
MaxCalls == 1

\* a types.PresentationUpdate
PresentationUpdate(operation, index, newSlide, newOrder, metadataUpdates) ==
    [Operation |-> operation, Slide_index |-> index, New_slide |-> newSlide,
     New_order |-> newOrder, Metadata_updates |-> metadataUpdates]

\* variant: the index is ignored and the slide is appended
addSlide_AppendOnly(slides, index, newSlide) == Append(slides, newSlide)

\* addSlide: slides and indices are zero-based in the code, sequences one-based here
addSlide(slides, index, newSlide) ==
    LET low == IF index < 0 THEN 0 ELSE index
        at == IF low > Len(slides) THEN Len(slides) ELSE low
    IN  SubSeq(slides, 1, at) \o <<newSlide>> \o SubSeq(slides, at + 1, Len(slides))

\* variant: the first slide cannot be modified
modifySlide_FromOne(slides, index, newSlide) ==
    IF index > 0 /\ index < Len(slides)
    THEN [slides EXCEPT ![index + 1] = newSlide]
    ELSE slides

\* case "modify_slide"
modifySlide(slides, index, newSlide) ==
    IF index >= 0 /\ index < Len(slides)
    THEN [slides EXCEPT ![index + 1] = newSlide]
    ELSE slides

\* case "delete_slide"
deleteSlide(slides, index) ==
    IF index >= 0 /\ index < Len(slides)
    THEN SubSeq(slides, 1, index) \o SubSeq(slides, index + 2, Len(slides))
    ELSE slides

\* reorderSlides: a position whose index is out of range keeps the zero Slide
reorderSlides(slides, newOrder) ==
    IF Len(newOrder) # Len(slides)
    THEN slides
    ELSE [i \in 1..Len(slides) |->
            IF newOrder[i] >= 0 /\ newOrder[i] < Len(slides)
            THEN slides[newOrder[i] + 1]
            ELSE Slide("")]

\* updateMetadata: updates is a map from key to value
updateMetadata(metadata, updates) ==
    [metadata EXCEPT
        !.Title = Get(updates, "title", metadata.Title),
        !.Subtitle = Get(updates, "subtitle", metadata.Subtitle),
        !.Author = Get(updates, "author", metadata.Author),
        !.Date = Get(updates, "date", metadata.Date),
        !.Theme = Get(updates, "theme", metadata.Theme)]

\* the body of the loop over updates
applyUpdate(data, update) ==
    CASE update.Operation = "add_slide" ->
           [data EXCEPT !.Slides = addSlide(data.Slides, update.Slide_index, update.New_slide)]
      [] update.Operation = "modify_slide" ->
           [data EXCEPT !.Slides = modifySlide(data.Slides, update.Slide_index, update.New_slide)]
      [] update.Operation = "delete_slide" ->
           [data EXCEPT !.Slides = deleteSlide(data.Slides, update.Slide_index)]
      [] update.Operation = "reorder_slides" ->
           [data EXCEPT !.Slides = reorderSlides(data.Slides, update.New_order)]
      [] update.Operation = "update_metadata" ->
           [data EXCEPT !.Metadata = updateMetadata(data.Metadata, update.Metadata_updates)]
      [] OTHER -> data

NoUpdate == PresentationUpdate("", 0, Slide(""), <<>>, <<>>)

\* an UpdatePresentation call: its position, the data it holds, the number of
\* updates applied, (history) the last update and the slides it was applied to,
\* and the number of calls made
Running(pcu, data, n, update, before, calls) ==
    [pc |-> pcu, data |-> data, n |-> n, update |-> update, before |-> before,
     calls |-> calls]

NoRun == Running("idle", NilData, 0, NoUpdate, <<>>, 0)

\* history: what was last put in the file
Saved(kind, pres, t1, t2) ==
    [kind |-> kind, pres |-> pres, created |-> t1.wall, modified |-> t2.wall]

Returned(op, data, err) == [op |-> op, data |-> data, err |-> err]

NoStore ==
    [file |-> NoFile,
     now |-> 1,
     saved |-> Saved("none", Presentation("", "", "", "", "", <<>>, <<>>), ZeroTime, ZeroTime),
     result |-> Returned("none", NilData, NoError),
     run |-> NoRun]

NoCaller ==
    /\ pc = "none"
    /\ store = NoStore
    /\ command = "none"
    /\ iteration = 0
    /\ preparation = [Questions |-> <<>>, Needs_more_info |-> FALSE]
    /\ allQAResponses = <<>>
    /\ retErr = "nil"
    /\ effects = {}
    /\ userCancel = FALSE

(***************************************************************************)
(* Spec: the form under any caller and any user.                           *)
(***************************************************************************)
Init ==
    /\ \E n \in 1..MaxRounds : form = NewIterativeForm(n)
    /\ last = NoEvent
    /\ submitted = <<>>
    /\ shown = <<>>
    /\ scn = -1
    /\ NoCaller

Next ==
    \/ Type(Buffers, MaxQuestions)
    \/ Backspace(MaxQuestions)
    \/ Enter(MaxQuestions)
    \/ Cancel(MaxQuestions)
    \/ CallAddQuestions(Batches, MaxQuestions)
    \/ CallNextIteration
    \/ Resize

Spec == Init /\ [][Next]_vars

(***************************************************************************)
(* SpecBytes: the form when the user types a character outside ASCII.      *)
(***************************************************************************)
ByteTexts == {Str1("y") \o Bytes("é")}

ByteBuffers == PrefixClosure(ByteTexts)

NextBytes ==
    \/ Type(ByteBuffers, MaxQuestions)
    \/ Backspace(MaxQuestions)
    \/ Enter(MaxQuestions)
    \/ Cancel(MaxQuestions)
    \/ CallAddQuestions(Batches, MaxQuestions)
    \/ CallNextIteration

SpecBytes == Init /\ [][NextBytes]_vars

(***************************************************************************)
(* SpecScenario: the form with round budget 2, the scenario's questions    *)
(* and the scenario's keys, in any order.                                  *)
(***************************************************************************)
ScnTexts == {Str1("x"), Str2("y", "z"), Str1("z")}

ScnBuffers == PrefixClosure(ScnTexts)

\* the scenario's caller appends the scenario's batches in the scenario's order
ScnBatches == {b \in {ScnAB, ScnC} : form.questions \o b \in Prefixes(ScnAB \o ScnC)}

InitScenario ==
    /\ form = NewIterativeForm(2)
    /\ last = NoEvent
    /\ submitted = <<>>
    /\ shown = <<>>
    /\ scn = 0
    /\ NoCaller

NextScenario ==
    \/ Type(ScnBuffers, ScnQuestions)
    \/ Backspace(ScnQuestions)
    \/ Enter(ScnQuestions)
    \/ Cancel(ScnQuestions)
    \/ CallAddQuestions(ScnBatches, ScnQuestions)
    \/ CallNextIteration

SpecScenario == InitScenario /\ [][NextScenario]_vars

(***************************************************************************)
(* SpecCaller: runCreate and runUpdate.  Both run the same gathering loop  *)
(* around one form and differ in what follows it.                          *)
(***************************************************************************)
maxIterations == 3

\* the texts the modelled user types while a command runs
CallerTexts == {Str1("y"), Str1("n")}

CallerBuffers == PrefixClosure(CallerTexts)

\* what PrepareCreatePresentation / PrepareUpdatePresentation may return as
\* questions: up to MaxBatch questions, with the round index the service chose
ServiceTexts == <<"A?", "B?", "C?", "D?">>

ServiceBatch(n, t) == [i \in 1..n |-> Q(ServiceTexts[i], t)]

\* the round index the service attaches: the one requested, or another one
ServiceTags == {iteration, (iteration + 1) % maxIterations}

ServiceQuestions == {ServiceBatch(n, t) : n \in 0..MaxBatch, t \in ServiceTags}

ErrPrepare == "failed to prepare questions"

ErrForm == "error running interactive form"

ErrCancelled == "cancelled"

ErrGenerate == "failed to generate"

ErrWrite == "failed to write"

Return(e) == pc' = "return" /\ retErr' = e

\* preparation, err := baml_client.Prepare...; AddQuestions; tea.NewProgram(form)
Prepare ==
    /\ pc = "prepare"
    /\ \/ /\ Return(ErrPrepare)
          /\ UNCHANGED <<form, last, preparation>>
       \/ \E qs \in ServiceQuestions, more \in BOOLEAN :
            /\ preparation' = [Questions |-> qs, Needs_more_info |-> more]
            /\ IF Len(qs) = 0
               THEN pc' = "generate" /\ UNCHANGED <<form, last>>
               ELSE /\ form' = AddQuestions(form, qs)
                    /\ last' = Event("AddQuestions", "", qs)
                    /\ pc' = "run"
            /\ UNCHANGED retErr
    /\ UNCHANGED <<submitted, shown, scn, command, store, iteration, allQAResponses, effects, userCancel>>

\* p.Run(): the program feeds key events to Update until it returns tea.Quit
RunKey(k) ==
    /\ pc = "run"
    /\ Apply(k, maxIterations * MaxBatch)
    /\ pc' = IF Update(form, KeyMsg(k)).cmd = Quit THEN "check" ELSE "run"
    /\ UNCHANGED <<command, store, iteration, preparation, allQAResponses, retErr, effects>>

RunType ==
    /\ \E k \in Runes(CallerBuffers) :
        /\ form.input \o Bytes(k) \in CallerBuffers
        /\ RunKey(k)
    /\ UNCHANGED userCancel

RunBackspace == RunKey("backspace") /\ UNCHANGED userCancel

RunEnter == RunKey("enter") /\ UNCHANGED userCancel

RunCancel ==
    /\ \E k \in {"ctrl+c", "esc"} : RunKey(k)
    /\ userCancel' = TRUE

\* p.Run() returns an error
RunError ==
    /\ pc = "run"
    /\ Return(ErrForm)
    /\ UNCHANGED formVars
    /\ UNCHANGED <<command, store, iteration, preparation, allQAResponses, effects, userCancel>>

QA(q, a) == [Q |-> q, A |-> a]

\* the loop that pairs preparation.Questions with iterationResponses
RECURSIVE CollectFrom(_, _, _)
CollectFrom(questions, iterationResponses, i) ==
    IF i > Len(questions) THEN <<>>
    ELSE (IF i - 1 < Len(iterationResponses)
          THEN <<QA(questions[i].Question, iterationResponses[i])>>
          ELSE <<>>)
         \o CollectFrom(questions, iterationResponses, i + 1)

Collect(m, iter, questions) ==
    CollectFrom(questions, GetResponsesForIteration(m, iter), 1)

\* if !form.IsDone() && !form.NeedsMoreInfo()
FormCancelled(m) == ~IsDone(m) /\ ~NeedsMoreInfo(m)

\* variant: the last round is taken to be the one before the last
LoopBreaks_Early ==
    \/ ~preparation.Needs_more_info
    \/ iteration >= maxIterations - 2
    \/ ~NeedsMoreInfo(form)

\* variant: the user's answer to the continuation prompt is not consulted
LoopBreaks_IgnoreUser ==
    \/ ~preparation.Needs_more_info
    \/ iteration = maxIterations - 1

\* variant: the test of the user's answer has lost its negation
LoopBreaks_Negated ==
    \/ ~preparation.Needs_more_info
    \/ iteration = maxIterations - 1
    \/ NeedsMoreInfo(form)

\* the three breaks that follow the collection of the round's answers
LoopBreaks ==
    \/ ~preparation.Needs_more_info
    \/ iteration = maxIterations - 1
    \/ ~NeedsMoreInfo(form)

\* the rest of the loop body, from the cancel check to form.NextIteration()
AfterRun ==
    /\ pc = "check"
    /\ IF FormCancelled(form)
       THEN /\ Return(ErrCancelled)
            /\ UNCHANGED <<form, last, iteration, allQAResponses>>
       ELSE /\ allQAResponses' =
                  allQAResponses \o Collect(form, iteration, preparation.Questions)
            /\ UNCHANGED retErr
            /\ IF LoopBreaks
               THEN pc' = "generate" /\ UNCHANGED <<form, last, iteration>>
               ELSE /\ form' = NextIteration(form)
                    /\ last' = Event("NextIteration", "", <<>>)
                    /\ iteration' = iteration + 1
                    /\ pc' = IF iteration + 1 < maxIterations THEN "prepare" ELSE "generate"
    /\ UNCHANGED <<submitted, shown, scn, command, store, preparation, effects, userCancel>>

\* baml_client.GeneratePresentation / GenerateUpdateOperations
Generate ==
    /\ pc = "generate"
    /\ effects' = effects \cup {"generate"}
    /\ \/ Return(ErrGenerate)
       \/ command = "update" /\ Return("nil")
       \/ pc' = "write" /\ UNCHANGED retErr
    /\ UNCHANGED formVars
    /\ UNCHANGED <<command, store, iteration, preparation, allQAResponses, userCancel>>

\* writer.SavePresentation / writer.UpdatePresentation
Write ==
    /\ pc = "write"
    /\ effects' = effects \cup {"write"}
    /\ \/ Return(ErrWrite)
       \/ Return("nil")
    /\ UNCHANGED formVars
    /\ UNCHANGED <<command, store, iteration, preparation, allQAResponses, userCancel>>

InitCaller ==
    /\ form = NewIterativeForm(maxIterations)
    /\ last = NoEvent
    /\ submitted = <<>>
    /\ shown = <<>>
    /\ scn = -1
    /\ pc = "prepare"
    /\ store = NoStore
    /\ command \in {"create", "update"}
    /\ iteration = 0
    /\ preparation = [Questions |-> <<>>, Needs_more_info |-> FALSE]
    /\ allQAResponses = <<>>
    /\ retErr = "nil"
    /\ effects = {}
    /\ userCancel = FALSE

NextCaller ==
    \/ Prepare
    \/ RunType
    \/ RunBackspace
    \/ RunEnter
    \/ RunCancel
    \/ RunError
    \/ AfterRun
    \/ Generate
    \/ Write

SpecCaller == InitCaller /\ [][NextCaller]_vars

\* enter on a buffer the form accepts: a non-blank answer at a question, a
\* yes or a no at the continuation prompt
ValidSubmit ==
    /\ IF form.askingMore
       THEN IsYes(ToLower(EnterInput(form))) \/ IsNo(ToLower(EnterInput(form)))
       ELSE EnterInput(form) # <<>>
    /\ RunEnter

\* the commands with a service whose calls return, a loop that goes on, and
\* a user who types and in the end submits an accepted answer
SpecCallerFair ==
    /\ InitCaller
    /\ [][NextCaller]_vars
    /\ WF_vars(Prepare)
    /\ WF_vars(AfterRun)
    /\ WF_vars(RunType)
    /\ SF_vars(ValidSubmit)

(***************************************************************************)
(* SpecStore: presentations saved by SavePresentation or put at the path   *)
(* in the raw format, and loaded by LoadPresentation.                      *)
(***************************************************************************)
SlideTitles == <<"s1", "s2", "s3", "s4">>

SlideLists == {[i \in 1..n |-> Slide(SlideTitles[i])] : n \in 0..MaxSlides}

Presentations ==
    {Presentation(t, st, "A", "2025-11-13", "dark", tags, sl) :
        t \in {"", "T"}, st \in {"", "S"}, tags \in {<<>>, <<"go">>}, sl \in SlideLists}

\* the readings of the clock by a call that starts now or one tick later
Readings ==
    {r \in (store.now..MaxClock) \X (store.now..MaxClock) :
        r[1] <= store.now + 1 /\ r[2] \in {r[1], r[1] + 1}}

Save ==
    /\ store.run.pc = "idle"
    /\ \E p \in Presentations, r \in Readings :
        \/ store' = [file |-> SavePresentation(p, Now(r[1]), Now(r[2])),
                     now |-> r[2],
                     saved |-> Saved("wrapped", p, Now(r[1]), Now(r[2])),
                     result |-> Returned("save", NilData, NoError),
                     run |-> NoRun]
        \/ store' = [store EXCEPT !.now = r[2],
                                  !.result = Returned("save", NilData, ErrWriteFile)]
    /\ UNCHANGED <<formVars, callerVars>>

\* the generator's output put at the path as it is
WriteRaw ==
    /\ store.run.pc = "idle"
    /\ \E p \in Presentations :
        store' = [store EXCEPT !.file = MarshalPresentation(p),
                               !.saved = Saved("raw", p, ZeroTime, ZeroTime),
                               !.result = Returned("none", NilData, NoError)]
    /\ UNCHANGED <<formVars, callerVars>>

\* something that is not JSON put at the path
WriteMalformed ==
    /\ store.run.pc = "idle"
    /\ store' = [store EXCEPT !.file = Malformed,
                              !.saved = Saved("malformed", store.saved.pres, ZeroTime, ZeroTime),
                              !.result = Returned("none", NilData, NoError)]
    /\ UNCHANGED <<formVars, callerVars>>

Load ==
    /\ store.run.pc = "idle"
    /\ \E r \in Readings :
        LET ret == LoadPresentation(store.file, Now(r[1]), Now(r[2])) IN
        store' = [store EXCEPT !.now = r[2],
                               !.result = Returned("load", ret.data, ret.err)]
    /\ UNCHANGED <<formVars, callerVars>>

InitStore ==
    /\ form = NewIterativeForm(maxIterations)
    /\ last = NoEvent
    /\ submitted = <<>>
    /\ shown = <<>>
    /\ scn = -1
    /\ NoCaller

NextStore ==
    \/ Save
    \/ WriteRaw
    \/ WriteMalformed
    \/ Load

SpecStore == InitStore /\ [][NextStore]_vars

\* the updates the update service may return for a list of n slides: every
\* operation, indices from one below the first to one past the end, orders
\* of the right length over these indices, and one order of a wrong length
Orders(n) == [1..n -> -1..n] \cup {[i \in 1..(n + 1) |-> 0]}

Updates(n) ==
    {PresentationUpdate(op, i, Slide("new"), <<>>, <<>>) :
        op \in {"add_slide", "modify_slide", "delete_slide"}, i \in -1..(n + 1)}
    \cup {PresentationUpdate("reorder_slides", 0, Slide(""), o, <<>>) : o \in Orders(n)}
    \cup {PresentationUpdate("update_metadata", 0, Slide(""), <<>>, [title |-> "U"])}

\* UpdatePresentation, up to the loop: the presentation is loaded
UpdateBegin ==
    /\ store.run.pc = "idle"
    /\ store.run.calls < MaxCalls
    /\ \E r \in Readings :
        LET ret == LoadPresentation(store.file, Now(r[1]), Now(r[2])) IN
        IF ret.err # NoError
        THEN store' = [store EXCEPT !.now = r[2],
                                    !.result = Returned("update", NilData, ret.err),
                                    !.run.calls = @ + 1]
        ELSE store' = [store EXCEPT !.now = r[2],
                                    !.result = Returned("none", NilData, NoError),
                                    !.run = Running("loop", ret.data, 0, NoUpdate,
                                                    ret.data.Slides, @.calls + 1)]
    /\ UNCHANGED <<formVars, callerVars>>

\* one turn of the loop over updates
UpdateStep ==
    /\ store.run.pc = "loop"
    /\ store.run.n < MaxUpdates
    /\ \E u \in Updates(Len(store.run.data.Slides)) :
        /\ Len(applyUpdate(store.run.data, u).Slides) <= MaxSlides
        /\ store' = [store EXCEPT !.run = Running("loop", applyUpdate(store.run.data, u),
                                                  @.n + 1, u, @.data.Slides, @.calls)]
    /\ UNCHANGED <<formVars, callerVars>>

\* UpdatePresentation after the loop: the modification time is set and the
\* file is written
UpdateEnd ==
    /\ store.run.pc = "loop"
    /\ \E t \in {r[1] : r \in Readings} :
        LET data == [store.run.data EXCEPT !.Metadata.Modified = Now(t)] IN
        \/ store' = [store EXCEPT !.file = MarshalData(data),
                                  !.now = t,
                                  !.result = Returned("update", data, NoError),
                                  !.run.pc = "idle"]
        \/ store' = [store EXCEPT !.now = t,
                                  !.result = Returned("update", NilData, ErrWriteFile),
                                  !.run.pc = "idle"]
    /\ UNCHANGED <<formVars, callerVars>>

\* the files UpdatePresentation is called on: none, and those SavePresentation
\* wrote for a titled or untitled presentation
Decks ==
    {Presentation(t, "S", "A", "2025-11-13", "dark", <<"go">>, sl) :
        t \in {"", "T"}, sl \in SlideLists}

InitUpdate ==
    /\ form = NewIterativeForm(maxIterations)
    /\ last = NoEvent
    /\ submitted = <<>>
    /\ shown = <<>>
    /\ scn = -1
    /\ pc = "none"
    /\ command = "none"
    /\ iteration = 0
    /\ preparation = [Questions |-> <<>>, Needs_more_info |-> FALSE]
    /\ allQAResponses = <<>>
    /\ retErr = NoError
    /\ effects = {}
    /\ userCancel = FALSE
    /\ store \in {NoStore} \cup
                 {[NoStore EXCEPT !.file = SavePresentation(p, Now(1), Now(1)),
                                  !.saved = Saved("wrapped", p, Now(1), Now(1))] : p \in Decks}

\* the writer under UpdatePresentation calls
NextUpdate ==
    \/ UpdateBegin
    \/ UpdateStep
    \/ UpdateEnd

SpecUpdate == InitUpdate /\ [][NextUpdate]_vars

(***************************************************************************)
(* Properties.                                                             *)
(***************************************************************************)
EnterStep == last'.op = "Update" /\ last'.key = "enter"

CancelStep == last'.op = "Update" /\ last'.key \in {"ctrl+c", "esc"}

EnterFrom(st) == last.op = "Update" /\ last.key = "enter" /\ last.from = st

Blank(s) == \A i \in DOMAIN s : s[i] = " "

SameLog(m, n) == n.responses = m.responses /\ n.currentIdx = m.currentIdx

SameFlags(m, n) ==
    /\ n.done = m.done
    /\ n.needsMore = m.needsMore
    /\ n.askingMore = m.askingMore

\* C1: in a form whose questions all belong to rounds up to the current one,
\* submitting a non-empty answer to the last unanswered question moves the
\* form to AskingContinuation when the round index is below MaxIterations-1
\* and to hard Complete when it is MaxIterations-1; an answer to an earlier
\* question of the round does neither.
C1_RoundEnd ==
    [][ ( /\ EnterStep
          /\ AnsweringQuestion(form)
          /\ \A i \in DOMAIN form.questions : form.questions[i].Iteration <= form.iteration
          /\ ~Blank(form.input) )
        => IF form.currentIdx = Len(form.questions) - 1
           THEN /\ form.iteration < form.config.MaxIterations - 1
                   => AskingContinuation(form')
                /\ form.iteration = form.config.MaxIterations - 1
                   => /\ form'.done
                      /\ ~form'.askingMore
                      /\ IsDone(form')
                      /\ ~NeedsMoreInfo(form')
           ELSE AnsweringQuestion(form') ]_vars

C1_Witness ==
    /\ EnterFrom("AnsweringQuestion")
    /\ AskingContinuation(form)
    /\ Len(form.questions) = 2
    /\ Len(form.responses) = 2
    /\ \A i \in DOMAIN form.questions : form.questions[i].Iteration = 0

Outputs(m) ==
    <<IsDone(m), NeedsMoreInfo(m), GetCurrentIteration(m), GetResponses(m)>>

WithInput(m, text) == [m EXCEPT !.input = text]

\* C3: the outputs read after the form stops tell the three outcomes apart:
\* at every continuation prompt, cancelling, answering no and answering yes
\* leave pairwise different outputs.
C3_ThreeWay ==
    AskingContinuation(form)
    => LET cancelled == Outputs(Update(form, KeyMsg("esc")).model)
           declined  == Outputs(Update(WithInput(form, Str1("n")), KeyMsg("enter")).model)
           accepted  == Outputs(Update(WithInput(form, Str1("y")), KeyMsg("enter")).model)
       IN  /\ cancelled # declined
           /\ cancelled # accepted
           /\ declined # accepted

\* C4: once the user has pressed a cancel key in a run of the form, the
\* command makes no generation call and writes no file, and the error it
\* returns is the cancelled error.
C4_CancelAborts ==
    userCancel
    => /\ effects = {}
       /\ pc \in {"check", "return"}
       /\ pc = "return" => retErr = ErrCancelled

\* C5: with round budget 2 and round 0 asking A? and B?: after x, y the form
\* asks for continuation; after y it is soft-complete with responses x, y;
\* after the caller appends C? for round 1 and advances the round and the
\* user types and submits z, it is hard-complete with responses x, y, z and
\* the responses of round 1 are z alone.
C5_Scenario ==
    /\ scn = 5 => AskingContinuation(form)
    /\ scn = 7 => /\ form.done
                  /\ NeedsMoreInfo(form)
                  /\ GetResponses(form) = <<Str1("x"), Str1("y")>>
    /\ scn = 11 => /\ IsDone(form)
                   /\ GetResponses(form) = <<Str1("x"), Str1("y"), Str1("z")>>
                   /\ GetResponsesForIteration(form, 1) = <<Str1("z")>>

\* C6: enter in AnsweringQuestion with an empty or whitespace-only buffer
\* leaves the response log, the cursor, the round number and the three flags
\* unchanged, keeps the form in AnsweringQuestion and sets the answer-required
\* error, at every question.
C6_EmptyAnswer ==
    [][ ( /\ EnterStep
          /\ AnsweringQuestion(form)
          /\ Blank(form.input) )
        => /\ SameLog(form, form')
           /\ SameFlags(form, form')
           /\ form'.iteration = form.iteration
           /\ AnsweringQuestion(form')
           /\ form'.err = ErrAnswerRequired ]_vars

C6_Witness ==
    /\ EnterFrom("AnsweringQuestion")
    /\ form.input = Str1(" ")
    /\ form.err = ErrAnswerRequired
    /\ AnsweringQuestion(form)
    /\ form.currentIdx = 1

YesTokens == {Str3("y", "e", "s"), Str1("y")}

NoTokens == {Str2("n", "o"), Str1("n")}

SoftComplete(m) == m.done /\ NeedsMoreInfo(m)

HardComplete(m) == m.done /\ IsDone(m) /\ ~NeedsMoreInfo(m)

\* the outcome of enter at the continuation prompt when the text it is
\* judged by is token
ContinuationOutcome(token) ==
    ( EnterStep /\ AskingContinuation(form) )
    => IF token \in YesTokens THEN SoftComplete(form')
       ELSE IF token \in NoTokens THEN HardComplete(form')
       ELSE AskingContinuation(form')

\* C7 as stated: at the continuation prompt the buffer itself, compared
\* case-insensitively, decides: yes or y completes softly, no or n completes
\* hard, any other buffer content is rejected.
C7_ExactToken == [][ ContinuationOutcome(ToLower(form.input)) ]_vars

\* C7: at the continuation prompt the buffer with leading and trailing
\* whitespace removed, compared case-insensitively, decides: yes or y
\* completes softly, no or n completes hard, anything else is rejected.
C7_TrimmedToken == [][ ContinuationOutcome(ToLower(TrimSpace(form.input))) ]_vars

C7_Witness ==
    /\ EnterFrom("AskingContinuation")
    /\ form.input = Str2("N", "O")
    /\ HardComplete(form)

\* C8: at the continuation prompt, submitting a text the form does not
\* recognise as yes or no keeps the form in AskingContinuation with the
\* response log, the cursor, the round number, done and needsMore unchanged,
\* sets the yes-or-no error and empties the buffer, each time it happens.
C8_Rejected ==
    [][ ( /\ EnterStep
          /\ AskingContinuation(form)
          /\ ToLower(TrimSpace(form.input)) \notin YesTokens \cup NoTokens )
        => /\ AskingContinuation(form')
           /\ SameLog(form, form')
           /\ SameFlags(form, form')
           /\ form'.iteration = form.iteration
           /\ form'.err = ErrYesOrNo
           /\ form'.input = <<>> ]_vars

C8_Witness ==
    /\ EnterFrom("AskingContinuation")
    /\ AskingContinuation(form)
    /\ form.err = ErrYesOrNo
    /\ form.input = <<>>
    /\ Len(form.responses) = 2

RECURSIVE SubmittedIn(_, _)
SubmittedIn(i, k) ==
    IF k > Len(submitted) THEN <<>>
    ELSE (IF submitted[k] = i THEN <<form.responses[k]>> ELSE <<>>)
         \o SubmittedIn(i, k + 1)

\* C9: for every round index i, GetResponsesForIteration(i) is, in order,
\* the answers submitted while the form's current round was i (stated for the
\* logs whose every response answered a displayed question).
C9_ByRound ==
    ( \A k \in DOMAIN submitted : submitted[k] >= 0 )
    => \A i \in 0..MaxRounds : GetResponsesForIteration(form, i) = SubmittedIn(i, 1)

RECURSIVE IsPrefix(_, _)
IsPrefix(s, t) ==
    \/ s = <<>>
    \/ /\ t # <<>>
       /\ Head(s) = Head(t)
       /\ IsPrefix(Tail(s), Tail(t))

\* C10: NextIteration called on a form that is soft-complete after a yes
\* raises the round number by one, clears done, needsMore and askingMore and
\* leaves the response log and the cursor as they were; from then on every key
\* event leaves the logged responses in place and at most appends to them.
C10_NextIteration ==
    [][ /\ ( last'.op = "NextIteration" /\ SoftComplete(form) )
           => /\ form'.iteration = form.iteration + 1
              /\ ~form'.done
              /\ ~form'.needsMore
              /\ ~form'.askingMore
              /\ SameLog(form, form')
        /\ ( last'.op = "Update" /\ form.iteration >= 1 )
           => IsPrefix(form.responses, form'.responses) ]_vars

C10_Witness ==
    /\ last.op = "NextIteration"
    /\ last.from = "Complete"
    /\ last.soft
    /\ form.iteration = 1
    /\ ~form.done
    /\ ~form.needsMore
    /\ Len(form.responses) = 1

\* C11: the response log is never longer than the question list.
C11_LogWithinQuestions == Len(form.responses) <= Len(form.questions)

\* C12: every logged response that has a question at its position was
\* submitted while that question was the one displayed.
C12_Aligned ==
    \A k \in DOMAIN form.responses \cap DOMAIN form.questions :
        shown[k] = form.questions[k]

\* the three states as the claim reads them off the flags
StatesHeld(m) ==
    {st \in {"AnsweringQuestion", "AskingContinuation", "Complete"} :
        \/ st = "AnsweringQuestion" /\ AnsweringQuestion(m)
        \/ st = "AskingContinuation" /\ AskingContinuation(m)
        \/ st = "Complete" /\ m.done /\ ~m.askingMore}

\* C13: in its first round, a form that has been given questions, and whose
\* every logged response answered a displayed question, is in exactly one of
\* AnsweringQuestion, AskingContinuation and Complete, and done and askingMore
\* are never both set.
C13_OneState ==
    ( /\ form.questions # <<>>
      /\ form.iteration = 0
      /\ \A k \in DOMAIN shown : shown[k] # NoQuestion )
    => /\ Cardinality(StatesHeld(form)) = 1
       /\ ~(form.done /\ form.askingMore)

\* C14: right after a NextIteration that follows a yes and finds no
\* unanswered question (every logged response having answered a displayed
\* question), the form is in AskingContinuation if rounds remain and Complete
\* otherwise.
C14_EmptyRound ==
    ( /\ last.op = "NextIteration"
      /\ last.soft
      /\ \A k \in DOMAIN shown : shown[k] # NoQuestion
      /\ form.currentIdx = Len(form.questions) )
    => IF form.iteration < form.config.MaxIterations - 1
       THEN AskingContinuation(form)
       ELSE Complete(form)

\* C15: NextIteration called while a question of the current round is
\* unanswered leaves the round number and the three flags as they were.
C15_MidRoundRejected ==
    [][ ( last'.op = "NextIteration" /\ AnsweringQuestion(form) )
        => /\ form'.iteration = form.iteration
           /\ SameFlags(form, form') ]_vars

\* C16: the key event that follows a cancel (a character, backspace or
\* enter) changes neither the response log, the cursor, the round number nor
\* the completion classification; and a cancel received while a validation
\* error is pending completes the form.
C16_Irreversible ==
    [][ /\ ( /\ last.op = "Update"
             /\ IsCancelKey(last.key)
             /\ last.from \in {"AnsweringQuestion", "AskingContinuation"}
             /\ last'.op = "Update"
             /\ ~IsCancelKey(last'.key) )
           => /\ SameLog(form, form')
              /\ form'.iteration = form.iteration
              /\ form'.done
              /\ IsDone(form') = IsDone(form)
              /\ NeedsMoreInfo(form') = NeedsMoreInfo(form)
        /\ ( /\ CancelStep
             /\ form.err # NoError
             /\ StateOf(form) \in {"AnsweringQuestion", "AskingContinuation"} )
           => form'.done ]_vars

\* C17: after a non-empty answer is submitted in AnsweringQuestion, and after
\* a recognised yes or no is submitted in AskingContinuation, the form has no
\* validation error.
C17_ErrorCleared ==
    [][ ( /\ EnterStep
          /\ \/ AnsweringQuestion(form) /\ ~Blank(form.input)
             \/ /\ AskingContinuation(form)
                /\ ToLower(TrimSpace(form.input)) \in YesTokens \cup NoTokens )
        => form'.err = NoError ]_vars

IsSummary(v) == Len(v) = 1 /\ v[1].kind = "summary"

Ended(m, more) == [m EXCEPT !.done = TRUE, !.askingMore = FALSE, !.needsMore = more]

\* C18: whenever the form is Complete, View is a one-line summary, and the
\* summary shown after a cancel (from AnsweringQuestion or AskingContinuation)
\* differs from the one shown after a yes and from the one shown after a no or
\* an exhausted budget, which differ from each other.
C18_Summaries ==
    Complete(form)
    => /\ IsSummary(View(form))
       /\ View(Ended(form, TRUE)) # View(Ended(form, FALSE))
       /\ ( /\ last.op = "Update"
            /\ IsCancelKey(last.key)
            /\ last.from \in {"AnsweringQuestion", "AskingContinuation"} )
          => /\ View(form) # View(Ended(form, TRUE))
             /\ View(form) # View(Ended(form, FALSE))

\* C19 as stated: whenever the form of a run ended with a yes, the command
\* calls NextIteration and requests the next batch instead of generating.
C19_YesContinues ==
    [][ ( pc = "check" /\ NeedsMoreInfo(form) )
        => /\ pc' = "prepare"
           /\ form'.iteration = form.iteration + 1 ]_vars

\* C19: whenever the form of a run ended with a yes and the question service
\* had reported needs_more_info for that round, the command calls
\* NextIteration and requests the next batch, and it runs the same form again
\* when that batch has a question; when the service had reported
\* needs_more_info false, the command goes on to generation.
C19_YesWhenServiceAsks ==
    [][ /\ ( pc = "check" /\ NeedsMoreInfo(form) /\ preparation.Needs_more_info )
           => /\ pc' = "prepare"
              /\ iteration' = iteration + 1
              /\ form'.iteration = form.iteration + 1
              /\ ~form'.done
              /\ ~form'.needsMore
              /\ form'.responses = form.responses
        /\ ( pc = "check" /\ NeedsMoreInfo(form) /\ ~preparation.Needs_more_info )
           => pc' = "generate"
        /\ ( pc = "prepare" /\ pc' # "return" /\ preparation'.Questions # <<>> )
           => /\ pc' = "run"
              /\ form'.questions = form.questions \o preparation'.Questions
              /\ form'.responses = form.responses ]_vars

C19_Witness ==
    /\ pc = "run"
    /\ iteration = 1
    /\ form.iteration = 1
    /\ last.op = "AddQuestions"
    /\ Len(form.questions) = 2
    /\ Len(form.responses) = 1
    /\ ~form.done

ResizeStep == last'.op = "Update" /\ last'.key = "resize"

\* the form has no field for the display width
NoWidth == 0

DisplayWidth(m) == IF "width" \in DOMAIN m THEN m.width ELSE NoWidth

\* C21: a resize event sets the form's display width to the reported width
\* and changes nothing else of the form.
C21_Resize ==
    [][ ResizeStep
        => /\ DisplayWidth(form') = last'.width
           /\ SameLog(form, form')
           /\ SameFlags(form, form')
           /\ form'.iteration = form.iteration
           /\ form'.input = form.input
           /\ form'.err = form.err
           /\ form'.questions = form.questions ]_vars

\* C22: the callers call NextIteration only from the check that follows a
\* run of the form, and only when the form is soft-complete: NeedsMoreInfo()
\* holds after a yes at the continuation prompt, every question of the list
\* has its response, and the user did not cancel.
C22_BetweenRounds ==
    [][ form'.iteration # form.iteration
        => /\ pc = "check"
           /\ NeedsMoreInfo(form)
           /\ form.done
           /\ form.currentIdx = Len(form.questions)
           /\ Len(form.responses) = Len(form.questions)
           /\ EnterFrom("AskingContinuation")
           /\ ToLower(TrimSpace(form.input)) \in YesTokens
           /\ ~userCancel ]_vars

C22_Witness ==
    /\ pc = "prepare"
    /\ last.op = "NextIteration"
    /\ last.from = "Complete"
    /\ last.soft
    /\ iteration = 2
    /\ form.iteration = 2
    /\ Len(form.responses) = Len(form.questions)

Ordered(questions) ==
    \A i, j \in DOMAIN questions :
        i <= j => questions[i].Iteration <= questions[j].Iteration

\* C23: in a list ordered by round index and tagged within the round budget, a non-empty answer to the last
\* question whose round index is at most the current round moves the form to
\* AskingContinuation if rounds remain and to Complete otherwise, also when
\* questions of a later round are already in the list.
C23_CumulativeCount ==
    [][ ( /\ EnterStep
          /\ AnsweringQuestion(form)
          /\ ~Blank(form.input)
          /\ Ordered(form.questions)
          /\ \A k \in DOMAIN form.questions :
                 form.questions[k].Iteration < form.config.MaxIterations
          /\ Len(form.responses) = form.currentIdx
          /\ form.currentIdx + 1 =
                 countQuestionsBeforeIteration(form.questions, form.iteration)
                 + countQuestionsInIteration(form.questions, form.iteration) )
        => IF CanIterate(form)
           THEN AskingContinuation(form')
           ELSE Complete(form') ]_vars

\* C24: no step changes a question already in the list, and AddQuestions puts
\* its batch at the end of the list and changes nothing else of the form.
C24_AppendOnly ==
    [][ /\ IsPrefix(form.questions, form'.questions)
        /\ last'.op = "AddQuestions"
           => /\ form'.questions = form.questions \o last'.batch
              /\ SameLog(form, form')
              /\ SameFlags(form, form')
              /\ form'.iteration = form.iteration
              /\ form'.input = form.input
              /\ form'.err = form.err ]_vars

C24_Witness ==
    /\ last.op = "AddQuestions"
    /\ last.batch # <<>>
    /\ Len(form.questions) > Len(last.batch)
    /\ form.currentIdx >= 1
    /\ form.input # <<>>
    /\ form.err # NoError

\* C26: enter in AnsweringQuestion with a non-blank buffer appends the
\* trimmed buffer as one entry of the response log, advances the cursor by
\* one, empties the buffer, clears the error and keeps the round number.
C26_Submit ==
    [][ ( EnterStep /\ AnsweringQuestion(form) /\ ~Blank(form.input) )
        => /\ form'.responses = Append(form.responses, TrimSpace(form.input))
           /\ form'.currentIdx = form.currentIdx + 1
           /\ form'.input = <<>>
           /\ form'.err = NoError
           /\ form'.iteration = form.iteration ]_vars

C26_Witness ==
    /\ EnterFrom("AnsweringQuestion")
    /\ Len(form.responses) = 2
    /\ form.responses[2] = Str1("y")
    /\ form.currentIdx = 2
    /\ form.input = <<>>
    /\ form.err = NoError

BackspaceStep == last'.op = "Update" /\ last'.key = "backspace"

\* the buffer without its last character, a character being one byte or the
\* two bytes of a character outside ASCII
DropLastChar(b) ==
    IF b = <<>> THEN b
    ELSE IF Len(b) >= 2 /\ SubSeq(b, Len(b) - 1, Len(b)) = Bytes("é")
         THEN SubSeq(b, 1, Len(b) - 2)
         ELSE SubSeq(b, 1, Len(b) - 1)

\* C27: backspace in AnsweringQuestion or AskingContinuation removes the last
\* character of a non-empty buffer, leaves an empty buffer empty, and changes
\* nothing else of the form.
C27_Backspace ==
    [][ ( BackspaceStep /\ (AnsweringQuestion(form) \/ AskingContinuation(form)) )
        => /\ form'.input = DropLastChar(form.input)
           /\ SameLog(form, form')
           /\ SameFlags(form, form')
           /\ form'.iteration = form.iteration
           /\ form'.err = form.err ]_vars

\* C28 as stated (for a form whose every logged response answered a
\* displayed question): in AskingContinuation every question of the list has
\* a response, the round index is below the last round, and the round budget
\* is not 1.
C28_AllAnswered ==
    ( /\ AskingContinuation(form)
      /\ \A k \in DOMAIN shown : shown[k] # NoQuestion )
    => /\ DOMAIN form.questions \subseteq DOMAIN form.responses
       /\ form.iteration < form.config.MaxIterations - 1
       /\ form.config.MaxIterations # 1

\* C28: when the form enters AskingContinuation every question then in the
\* list has a response, and only AddQuestions called while the prompt is
\* shown puts a question without a response in the list;
\* in AskingContinuation the round index is below the last round, and with a
\* round budget of 1 the prompt is never reached.
C28_AnsweredOnEntry ==
    [][ /\ AskingContinuation(form')
           => /\ form'.iteration < form'.config.MaxIterations - 1
              /\ form'.config.MaxIterations # 1
        /\ ( ~AskingContinuation(form) /\ AskingContinuation(form') )
           => DOMAIN form'.questions \subseteq DOMAIN form'.responses
        /\ ( /\ AskingContinuation(form)
             /\ AskingContinuation(form')
             /\ DOMAIN form.questions \subseteq DOMAIN form.responses
             /\ last'.op # "AddQuestions" )
           => DOMAIN form'.questions \subseteq DOMAIN form'.responses ]_vars

C28_Witness ==
    /\ AskingContinuation(form)
    /\ last.op = "AddQuestions"
    /\ last.from = "AskingContinuation"
    /\ last.batch # <<>>
    /\ Len(form.questions) > Len(form.responses)
    /\ form.responses # <<>>

YesStep ==
    /\ EnterStep
    /\ AskingContinuation(form)
    /\ ToLower(TrimSpace(form.input)) \in YesTokens

\* C29: NeedsMoreInfo() becomes true only by a yes at the continuation
\* prompt, a yes makes it true, it stays true until NextIteration, which makes
\* it false; while it is true the form is done and IsDone() is false.
C29_WantsMore ==
    [][ /\ YesStep => NeedsMoreInfo(form')
        /\ ( NeedsMoreInfo(form) /\ last'.op # "NextIteration" ) => NeedsMoreInfo(form')
        /\ ( ~NeedsMoreInfo(form) /\ NeedsMoreInfo(form') ) => YesStep
        /\ last'.op = "NextIteration" => ~NeedsMoreInfo(form')
        /\ NeedsMoreInfo(form') => ( form'.done /\ ~IsDone(form') ) ]_vars

\* C30: when a round begins, at construction and right after the
\* NextIteration that follows a yes, the input buffer is empty.
C30_EmptyAtRoundStart ==
    ( \/ last.op = "NewIterativeForm"
      \/ last.op = "NextIteration" /\ last.soft )
    => form.input = <<>>

\* the fields a Presentation and a loaded PresentationData have in common
SameContent(data, pres) ==
    /\ data.Metadata.Title = pres.Title
    /\ data.Metadata.Subtitle = pres.Subtitle
    /\ data.Metadata.Author = pres.Author
    /\ data.Metadata.Date = pres.Date
    /\ data.Metadata.Theme = pres.Theme
    /\ data.Metadata.Tags = pres.Tags
    /\ data.Slides = pres.Slides

\* C25: LoadPresentation of a file written by SavePresentation returns the
\* title, subtitle, author, date, theme, tags, slides and the created and
\* modified times that were saved, and LoadPresentation of a raw Presentation
\* file returns its title, subtitle, author, date, theme, tags and slides.
C25_RoundTrip ==
    ( store.result.op = "load" /\ store.saved.kind \in {"wrapped", "raw"} )
    => /\ store.result.err = NoError
       /\ SameContent(store.result.data, store.saved.pres)
       /\ store.saved.kind = "wrapped"
          => /\ store.result.data.Metadata.Created.wall = store.saved.created
             /\ store.result.data.Metadata.Modified.wall = store.saved.modified

\* the state holds the result of an update of the given operation
StepOf(op) == store.run.n >= 1 /\ store.run.update.Operation = op

\* the number of places of a list that hold x
Count(list, x) == Cardinality({i \in DOMAIN list : list[i] = x})

IsPermutation(a, b) ==
    /\ Len(a) = Len(b)
    /\ \A i \in DOMAIN b : Count(a, b[i]) = Count(b, b[i])

\* an order names every zero-based index of a list of n slides exactly once
ValidOrder(order, n) ==
    /\ Len(order) = n
    /\ \A i \in DOMAIN order : order[i] >= 0 /\ order[i] < n
    /\ \A i, j \in DOMAIN order : order[i] = order[j] => i = j

\* C37: reorder_slides leaves the list unchanged when the new order has the
\* wrong length, an index out of range or a repeated index; otherwise place
\* i of the result holds the slide the new order names for it; the result
\* is always a permutation of the list.
C37_Reorder ==
    StepOf("reorder_slides")
    => LET slides == store.run.before
           order == store.run.update.New_order
           result == store.run.data.Slides
       IN  /\ IF ValidOrder(order, Len(slides))
              THEN result = [i \in 1..Len(slides) |-> slides[order[i] + 1]]
              ELSE result = slides
           /\ IsPermutation(result, slides)

\* the index clamped to lo..hi
Clamp(i, lo, hi) == IF i < lo THEN lo ELSE IF i > hi THEN hi ELSE i

\* C38: add_slide puts the new slide at the index clamped to 0..len(slides):
\* the result has one slide more, the new slide is at that place, and the
\* slides before and after it are the old ones in their order.
C38_AddSlide ==
    StepOf("add_slide")
    => LET slides == store.run.before
           result == store.run.data.Slides
           k == Clamp(store.run.update.Slide_index, 0, Len(slides))
       IN  /\ Len(result) = Len(slides) + 1
           /\ result[k + 1] = store.run.update.New_slide
           /\ \A j \in 1..k : result[j] = slides[j]
           /\ \A j \in (k + 1)..Len(slides) : result[j + 1] = slides[j]

\* a slide was added with an index past the end of a list that has slides
C38_Witness ==
    /\ StepOf("add_slide")
    /\ store.run.before # <<>>
    /\ store.run.update.Slide_index > Len(store.run.before)

\* the index of the update names a slide of the list it was applied to
InRange == store.run.update.Slide_index \in 0..(Len(store.run.before) - 1)

\* the result of a modify_slide or a delete_slide
ModifiedOrDeleted ==
    LET slides == store.run.before
        result == store.run.data.Slides
        i == store.run.update.Slide_index
    IN  /\ ( StepOf("modify_slide") /\ InRange )
           => /\ Len(result) = Len(slides)
              /\ result[i + 1] = store.run.update.New_slide
              /\ \A j \in DOMAIN slides : j # i + 1 => result[j] = slides[j]
        /\ ( StepOf("delete_slide") /\ InRange )
           => /\ Len(result) = Len(slides) - 1
              /\ \A j \in 1..i : result[j] = slides[j]
              /\ \A j \in (i + 1)..Len(result) : result[j] = slides[j + 1]
        /\ ( (StepOf("modify_slide") \/ StepOf("delete_slide")) /\ ~InRange )
           => result = slides

\* an update is applied to the list the updates before it left, and the call
\* ends without error with that list in the file unless the write fails
AppliedInTurn ==
    /\ ( store.run.pc = "loop" /\ store'.run.n = store.run.n + 1 )
       => store'.run.before = store.run.data.Slides
    /\ ( store.run.pc = "loop" /\ store'.run.pc = "idle" )
       => \/ /\ store'.result.err = NoError
             /\ UnmarshalData(store'.file).Slides = store.run.data.Slides
          \/ /\ store'.result.err = ErrWriteFile
             /\ store'.file = store.file

\* C39: modify_slide and delete_slide with an index out of range leave the
\* list unchanged and the call still succeeds; in range they replace or
\* remove exactly that slide; each update sees the list as the earlier
\* updates of the call left it.
C39_ModifyDelete == []ModifiedOrDeleted /\ [][AppliedInTurn]_vars

\* a call ended without error whose second update removed the slide its
\* first update had put in place
C39_Witness ==
    /\ store.run.pc = "idle"
    /\ store.result.op = "update"
    /\ store.result.err = NoError
    /\ store.run.n = 2
    /\ StepOf("delete_slide")
    /\ InRange
    /\ store.run.before[store.run.update.Slide_index + 1] = Slide("new")

\* the log of the form paired, entry by entry, with the questions answered
Paired(m) ==
    [k \in 1..Len(m.responses) |-> QA(m.questions[k].Question, m.responses[k])]

\* C31: when generation starts, the collected list has one entry for each
\* response the form recorded, in the order of the answers, each pairing
\* the answer with the question it answered, whatever round index the
\* service attached to the questions.
C31_Collected ==
    ( pc = "generate" /\ ~userCancel ) => allQAResponses = Paired(form)

\* the zero-based indices at which View reads the question list
QuestionsRead(m) ==
    IF ~(m.done /\ ~m.askingMore) /\ ~m.askingMore /\ m.currentIdx < Len(m.questions)
    THEN {m.currentIdx}
    ELSE {}

\* the zero-based indices at which View reads the response log
ResponsesRead(m) ==
    IF m.done /\ ~m.askingMore THEN {}
    ELSE IF m.askingMore THEN 0..(Len(m.responses) - 1)
    ELSE IF m.currentIdx < Len(m.questions)
    THEN countQuestionsBeforeIteration(m.questions, m.iteration)..(m.currentIdx - 1)
    ELSE {}

\* C32: the cursor equals the length of the response log in every reachable
\* state, and View reads the question list and the response log only at
\* indices they have.
C32_Cursor ==
    /\ form.currentIdx = Len(form.responses)
    /\ QuestionsRead(form) \subseteq 0..(Len(form.questions) - 1)
    /\ ResponsesRead(form) \subseteq 0..(Len(form.responses) - 1)

\* a question is displayed with the previous answer of its round below it
C32_Witness ==
    /\ AnsweringQuestion(form)
    /\ QuestionsRead(form) = {1}
    /\ ResponsesRead(form) = {0}

\* C33: the response log only grows at its end: under key events,
\* AddQuestions, NextIteration and window resizes the log before a step is
\* a prefix of the log after it.
C33_LogGrows == [][IsPrefix(form.responses, form'.responses)]_vars

\* a second round began and an answer was added to the log of the first
C33_Witness ==
    /\ form.iteration = 1
    /\ Len(form.responses) = 2
    /\ last.op = "Update"
    /\ last.key = "enter"

\* C36: every entry of the response log is non-empty and has no leading or
\* trailing whitespace.
C36_Trimmed ==
    \A k \in DOMAIN form.responses :
        /\ form.responses[k] # <<>>
        /\ TrimSpace(form.responses[k]) = form.responses[k]

\* the answer typed as " y" is in the log as "y"
C36_Witness ==
    /\ submitted # <<>>
    /\ \E k \in DOMAIN form.responses : form.responses[k] = Str1("y")

\* C34: under the callers' loop the form is run with its round number equal
\* to the loop's iteration index, the round number stays below
\* MaxIterations, and the form is run at most MaxIterations times: a run
\* starts at an index below maxIterations and the next run starts at the
\* index after it.
C34_RoundIsIndex ==
    /\ [](pc = "run" => form.iteration = iteration /\ iteration < maxIterations)
    /\ [](form.iteration < form.config.MaxIterations)
    /\ [][ /\ ( pc # "run" /\ pc' = "run" ) => ( pc = "prepare" /\ iteration' = iteration )
           /\ ( pc = "check" /\ pc' = "prepare" ) => iteration' = iteration + 1
           /\ pc' = "prepare" => pc = "check"
           /\ pc # "check" => iteration' = iteration ]_vars

\* the form is run for the last round the loop allows
C34_Witness ==
    /\ pc = "run"
    /\ iteration = maxIterations - 1
    /\ form.iteration = maxIterations - 1
    /\ form.currentIdx < Len(form.questions)

\* the form program ended with an error, so that the user could not answer
Interrupted == retErr = ErrForm

====
